---- MODULE Spec2Model ----
(***************************************************************************)
(* Model of eqcorrscan/core/match_filter/family.py: the Family container   *)
(* of Detection objects, its combination operators (+, +=, append), the    *)
(* lazily reconciled catalog, sort, _uniq and copy.                        *)
(*                                                                         *)
(* Python objects live in heaps keyed by identity: Detection objects in    *)
(* dets, list objects in lists, Family objects in fams.  A Family holds a  *)
(* reference to its list of detections, a list holds references to         *)
(* Detection objects, so aliasing is visible in the model.  Objects that   *)
(* nothing refers to any more are reclaimed (reference counting).          *)
(***************************************************************************)
EXTENDS Integers, Sequences, FiniteSets, TLC

\* ---- bounds of the model ----
MaxDets == 6
MaxFams == 3
MaxLen == 4
MaxTime == 2
MaxVal == 2
MaxSteps == 4

DetIds == 1..MaxDets
\* Every list is the list of a Family, a list literal of a constructor call,
\* or one of the two lists a comparison sorts into.
ListIds == 1..(2 * MaxFams + 2)
FamIds == 1..MaxFams
Names == {"a", "b"}
Times == 1..MaxTime
Vals == 1..MaxVal
\* The Detections a caller makes: template a at every time and value, and
\* one Detection of template b.
DetValues == {<<"a", t, v>> : t \in Times, v \in Vals} \cup {<<"b", 1, 1>>}

VARIABLES
    dets,       \* heap of Detection objects: id -> fields
    lists,      \* heap of list objects: id -> sequence of Detection ids
    fams,       \* heap of Family objects: id -> template, detections, catalog
    heldDets,   \* Detection objects the caller keeps a name for
    heldLists,  \* list objects the caller keeps a name for
    combined,   \* history: <<c, a, b>> for every c = a + b that succeeded
    last,       \* the last call: operation, operands, error raised, result
    steps,      \* number of calls made so far
    disk,       \* the detection file: a sequence of lines of text
    io          \* the last call of _write_family or _read_family

vars == <<dets, lists, fams, heldDets, heldLists, combined, last, steps,
          disk, io>>

\* ---- values ----
NoRef == [kind |-> "none", id |-> 0]
DetRef(d) == [kind |-> "detection", id |-> d]
ListRef(l) == [kind |-> "list", id |-> l]
FamRef(f) == [kind |-> "family", id |-> f]
OtherRef == [kind |-> "other", id |-> 0]
CatalogRef(f) == [kind |-> "catalog", id |-> f]

Template(n) == [name |-> n]

EmptyFcn == [x \in {} |-> 0]

Min(S) == CHOOSE x \in S : \A y \in S : x <= y

Range(s) == {s[i] : i \in 1..Len(s)}

\* The heap a call works on: the three object heaps and the caller's names.
Heap == [dets |-> dets, lists |-> lists, fams |-> fams,
         heldDets |-> heldDets, heldLists |-> heldLists]

FreeDets(h) == DetIds \ DOMAIN h.dets
FreeLists(h) == ListIds \ DOMAIN h.lists
FreeFams(h) == FamIds \ DOMAIN h.fams

\* The detections of family f, as a sequence of Detection ids.
DetsOf(h, f) == h.lists[h.fams[f].detections]

\* ---- Detection (eqcorrscan.core.match_filter.detection) ----
\* Detection.__init__: the event description of a detection carries the
\* resource id of the detection it was derived for.
Detection(d, n, t, v) ==
    [template_name |-> n, detect_time |-> t, detect_val |-> v, event |-> d]

\* Detection.__eq__: all fields except the derived event.
DetectionEq(x, y) ==
    /\ x.template_name = y.template_name
    /\ x.detect_time = y.detect_time
    /\ x.detect_val = y.detect_val

\* get_catalog(detections): one event description per detection, in order.
get_catalog(h, s) == [i \in 1..Len(s) |-> h.dets[s[i]].event]

\* Template.__eq__: templates are identified by their name.
TemplateEq(t1, t2) == t1.name = t2.name

\* ---- allocation ----
NewList(h, s) ==
    LET l == Min(FreeLists(h))
    IN [h |-> [h EXCEPT !.lists = l :> s @@ h.lists], l |-> l]

\* Reference counting: a list lives while the caller or a Family refers to
\* it, a Detection while the caller or a living list refers to it.
Collect(h) ==
    LET liveL == (h.heldLists \cup
                    {h.fams[f].detections : f \in DOMAIN h.fams})
                    \cap DOMAIN h.lists
        liveD == (h.heldDets \cup UNION {Range(h.lists[l]) : l \in liveL})
                    \cap DOMAIN h.dets
    IN [h EXCEPT !.dets = [d \in liveD |-> h.dets[d]],
                 !.lists = [l \in liveL |-> h.lists[l]]]

\* ---- lists ----
\* sorted(detections, key=detect_time): a stable sort into a new list.
RECURSIVE Insert_strict(_, _, _)
Insert_strict(h, s, d) ==
    IF s = <<>> THEN <<d>>
    ELSE IF h.dets[s[Len(s)]].detect_time < h.dets[d].detect_time
    THEN Append(s, d)
    ELSE Append(Insert_strict(h, SubSeq(s, 1, Len(s) - 1), d), s[Len(s)])

RECURSIVE Insert(_, _, _)
Insert(h, s, d) ==
    IF s = <<>> THEN <<d>>
    ELSE IF h.dets[s[Len(s)]].detect_time <= h.dets[d].detect_time
    THEN Append(s, d)
    ELSE Append(Insert(h, SubSeq(s, 1, Len(s) - 1), d), s[Len(s)])

RECURSIVE sorted(_, _)
sorted(h, s) ==
    IF s = <<>> THEN <<>>
    ELSE Insert(h, sorted(h, SubSeq(s, 1, Len(s) - 1)), s[Len(s)])

\* list.count(d): the number of elements equal to d under Detection.__eq__
Count(h, s, d) ==
    Cardinality({i \in 1..Len(s) : DetectionEq(h.dets[s[i]], h.dets[d])})

RECURSIVE Unique_last(_, _, _)
Unique_last(h, s, acc) ==
    IF s = <<>> THEN acc
    ELSE IF Count(h, Tail(s), Head(s)) = 0
    THEN Unique_last(h, Tail(s), Append(acc, Head(s)))
    ELSE Unique_last(h, Tail(s), acc)

RECURSIVE Unique_once(_, _, _)
Unique_once(h, s, acc) ==
    IF s = <<>> THEN acc
    ELSE IF Count(h, acc, Head(s)) = 0
    THEN Unique_once(h, Tail(s), Append(acc, Head(s)))
    ELSE acc \o Tail(s)

RECURSIVE Unique(_, _, _)
Unique(h, s, acc) ==
    IF s = <<>> THEN acc
    ELSE IF Count(h, acc, Head(s)) = 0
    THEN Unique(h, Tail(s), Append(acc, Head(s)))
    ELSE Unique(h, Tail(s), acc)

\* ---- errors ----
\* The three errors are NotImplementedError with these messages.
TemplateMismatch == "NotImplementedError: Templates do not match"
UnsupportedCombination ==
    "NotImplementedError: Can only extend with a Detection or Family object."
UnsupportedOperation ==
    "NotImplementedError: Setting catalog directly is no-longer supported"

\* ---- Family ----
\* The outcome of a call: the heap after it, the error raised ("none" when
\* the call returns), and the value returned.
Outcome(h, err, res) == [h |-> h, err |-> err, res |-> res]

\* Family.__init__, the detections argument: a single Detection is wrapped
\* in a list; a non-empty list is kept by reference; None and the empty list
\* give a new empty list.
InitDetections(h, arg) ==
    IF arg.kind = "detection"
    THEN NewList(h, <<arg.id>>)
    ELSE IF arg.kind = "list" /\ Len(h.lists[arg.id]) > 0
    THEN [h |-> h, l |-> arg.id]
    ELSE NewList(h, <<>>)

Family_init_usecat(h, t, arg, cat) ==
    LET f == Min(FreeFams(h))
        w == InitDetections(h, arg)
        rec == [template |-> t, detections |-> w.l,
                catalog |-> IF cat # <<>> THEN cat
                            ELSE get_catalog(w.h, w.h.lists[w.l])]
    IN Outcome([w.h EXCEPT !.fams = f :> rec @@ w.h.fams], "none", FamRef(f))

\* Family.__init__(template, detections, catalog): the catalog is made from
\* the detections; the catalog argument is not used (a warning is logged).
Family_init(h, t, arg, cat) ==
    LET f == Min(FreeFams(h))
        w == InitDetections(h, arg)
        rec == [template |-> t, detections |-> w.l,
                catalog |-> get_catalog(w.h, w.h.lists[w.l])]
    IN Outcome([w.h EXCEPT !.fams = f :> rec @@ w.h.fams], "none", FamRef(f))

Family_catalog_cached(h, f) == Outcome(h, "none", CatalogRef(f))

\* Family.catalog (getter): regenerated when its length differs from the
\* number of detections, then returned.
Family_catalog(h, f) ==
    IF Len(h.fams[f].catalog) # Len(DetsOf(h, f))
    THEN Outcome([h EXCEPT !.fams[f].catalog = get_catalog(h, DetsOf(h, f))],
                 "none", CatalogRef(f))
    ELSE Outcome(h, "none", CatalogRef(f))

\* Family.catalog (setter)
Family_catalog_set(h, f, cat) == Outcome(h, UnsupportedOperation, NoRef)

ExtendWithFamily_uniq(h, f, g) ==
    LET l == h.fams[f].detections
        h1 == [h EXCEPT !.lists[l] = Unique(h, h.lists[l] \o DetsOf(h, g), <<>>)]
    IN [h1 EXCEPT !.fams[f].catalog =
            h1.fams[f].catalog \o get_catalog(h1, DetsOf(h1, g))]

ExtendWithFamily_sorted(h, f, g) ==
    LET l == h.fams[f].detections
        h1 == [h EXCEPT !.lists[l] = sorted(h, h.lists[l] \o DetsOf(h, g))]
    IN [h1 EXCEPT !.fams[f].catalog =
            h1.fams[f].catalog \o get_catalog(h1, DetsOf(h1, g))]

\* __iadd__, Family branch with equal templates: extend the list of
\* detections in place, then extend the catalog with the catalog of the
\* other family's detections (read after the list was extended).
ExtendWithFamily(h, f, g) ==
    LET l == h.fams[f].detections
        h1 == [h EXCEPT !.lists[l] = h.lists[l] \o DetsOf(h, g)]
    IN [h1 EXCEPT !.fams[f].catalog =
            h1.fams[f].catalog \o get_catalog(h1, DetsOf(h1, g))]

AppendDetection_front(h, f, d) ==
    LET l == h.fams[f].detections
        h1 == [h EXCEPT !.lists[l] = <<d>> \o h.lists[l]]
    IN [h1 EXCEPT !.fams[f].catalog =
            h1.fams[f].catalog \o get_catalog(h1, <<d>>)]

\* __iadd__, Detection branch with the family's template name.
AppendDetection(h, f, d) ==
    LET l == h.fams[f].detections
        h1 == [h EXCEPT !.lists[l] = Append(h.lists[l], d)]
    IN [h1 EXCEPT !.fams[f].catalog =
            h1.fams[f].catalog \o get_catalog(h1, <<d>>)]

SameTemplateName_any(h, f, d) == TRUE

\* __iadd__: other.template_name == self.template.name
SameTemplateName(h, f, d) ==
    h.dets[d].template_name = h.fams[f].template.name

Unsupported_mismatch(h) == Outcome(h, TemplateMismatch, NoRef)

\* __iadd__, last branch: NotImplementedError('Can only extend with a
\* Detection or Family object.')
Unsupported(h) == Outcome(h, UnsupportedCombination, NoRef)

\* Family.__iadd__(other)
Family_iadd(h, f, other) ==
    IF other.kind = "family"
    THEN IF TemplateEq(h.fams[other.id].template, h.fams[f].template)
         THEN Outcome(ExtendWithFamily(h, f, other.id), "none", FamRef(f))
         ELSE Outcome(h, TemplateMismatch, NoRef)
    ELSE IF other.kind = "detection" /\ SameTemplateName(h, f, other.id)
    THEN Outcome(AppendDetection(h, f, other.id), "none", FamRef(f))
    ELSE IF other.kind = "detection"
    THEN Outcome(h, TemplateMismatch, NoRef)
    ELSE Unsupported(h)

\* copy.deepcopy of the Detection objects of a list: every distinct object
\* gets one new object, in the order of first occurrence.
RECURSIVE CopyMap(_, _, _)
CopyMap(s, free, m) ==
    IF s = <<>> THEN m
    ELSE IF Head(s) \in DOMAIN m THEN CopyMap(Tail(s), free, m)
    ELSE LET n == Min(free)
         IN CopyMap(Tail(s), free \ {n}, (Head(s) :> n) @@ m)

Family_copy_shallow(h, f) ==
    LET nl == NewList(h, DetsOf(h, f))
        c == Min(FreeFams(h))
        rec == [template |-> Template(h.fams[f].template.name),
                detections |-> nl.l,
                catalog |-> h.fams[f].catalog]
    IN Outcome([nl.h EXCEPT !.fams = c :> rec @@ nl.h.fams], "none", FamRef(c))

\* Family.copy(): a deep copy of the family, its template, its list of
\* detections, the Detection objects and the catalog.
Family_copy(h, f) ==
    LET s == DetsOf(h, f)
        m == CopyMap(s, FreeDets(h), EmptyFcn)
        new == {m[d] : d \in DOMAIN m}
        old(n) == CHOOSE d \in DOMAIN m : m[d] = n
        h1 == [h EXCEPT !.dets =
                 [n \in new |-> h.dets[old(n)]] @@ h.dets]
        nl == NewList(h1, [i \in 1..Len(s) |-> m[s[i]]])
        c == Min(FreeFams(h))
        rec == [template |-> Template(h.fams[f].template.name),
                detections |-> nl.l,
                catalog |-> h.fams[f].catalog]
    IN Outcome([nl.h EXCEPT !.fams = c :> rec @@ nl.h.fams], "none", FamRef(c))

\* The temporary Family f of a call goes out of scope.
Unbind(h, f) ==
    Collect([h EXCEPT !.fams = [g \in DOMAIN h.fams \ {f} |-> h.fams[g]]])

\* Family.__add__(other): self.copy().__iadd__(other)
Family_add_nocopy(h, f, other) == Family_iadd(h, f, other)

\* When __iadd__ raises, the copy is referred to by nothing and goes away.
Family_add(h, f, other) ==
    LET c == Family_copy(h, f)
        r == Family_iadd(c.h, c.res.id, other)
    IN IF r.err = "none" THEN r
       ELSE Outcome(Unbind(r.h, c.res.id), r.err, r.res)

\* Family.append(other): self.__add__(other)
Family_append(h, f, other) == Family_add(h, f, other)

\* Family.sort()
Family_sort(h, f) ==
    LET nl == NewList(h, sorted(h, DetsOf(h, f)))
    IN Outcome(Collect([nl.h EXCEPT !.fams[f].detections = nl.l]),
               "none", FamRef(f))

\* Family._uniq()
Family_uniq(h, f) ==
    LET nl == NewList(h, Unique(h, DetsOf(h, f), <<>>))
    IN Outcome(Collect([nl.h EXCEPT !.fams[f].detections = nl.l]),
               "none", FamRef(f))

BoolRef(b) == [kind |-> "bool", id |-> IF b THEN 1 ELSE 0]

\* zip(self.sort().detections, other.sort().detections) compared pairwise
AllPairsEq(h, s, t) ==
    \A i \in 1..Len(s) : i <= Len(t) => DetectionEq(h.dets[s[i]], h.dets[t[i]])

Family_eq_selfsorted(h, f, g) ==
    IF ~TemplateEq(h.fams[f].template, h.fams[g].template)
    THEN Outcome(h, "none", BoolRef(FALSE))
    ELSE IF Len(DetsOf(h, f)) # Len(DetsOf(h, g))
    THEN Outcome(h, "none", BoolRef(FALSE))
    ELSE LET h1 == IF Len(DetsOf(h, f)) # 0 /\ Len(DetsOf(h, g)) # 0
                   THEN Family_sort(h, f).h
                   ELSE h
         IN IF ~AllPairsEq(h1, DetsOf(h1, f), DetsOf(h1, g))
            THEN Outcome(h1, "none", BoolRef(FALSE))
            ELSE LET h2 == Family_catalog(Family_catalog(h1, f).h, g).h
                 IN Outcome(h2, "none",
                        BoolRef(Len(h2.fams[f].catalog) = Len(h2.fams[g].catalog)))

\* Family.__eq__(other)
Family_eq(h, f, g) ==
    IF ~TemplateEq(h.fams[f].template, h.fams[g].template)
    THEN Outcome(h, "none", BoolRef(FALSE))
    ELSE IF Len(DetsOf(h, f)) # Len(DetsOf(h, g))
    THEN Outcome(h, "none", BoolRef(FALSE))
    ELSE LET h1 == IF Len(DetsOf(h, f)) # 0 /\ Len(DetsOf(h, g)) # 0
                   THEN Family_sort(Family_sort(h, f).h, g).h
                   ELSE h
         IN IF ~AllPairsEq(h1, DetsOf(h1, f), DetsOf(h1, g))
            THEN Outcome(h1, "none", BoolRef(FALSE))
            ELSE LET h2 == Family_catalog(Family_catalog(h1, f).h, g).h
                 IN Outcome(h2, "none",
                        BoolRef(Len(h2.fams[f].catalog) = Len(h2.fams[g].catalog)))

\* Family.__ne__(other)
Family_ne(h, f, g) ==
    LET r == Family_eq(h, f, g)
    IN Outcome(r.h, r.err, BoolRef(r.res.id = 0))

\* ---- text ----
\* A text is a sequence of characters.  A run of characters of which the
\* codec looks at none (letters, '_', '-') is written as one element.
Chars == <<"0", "1", "2", "3", "4", "5", "6", "7", "8", "9">>
DigitChar(d) == Chars[d + 1]
IsDigit(c) == \E d \in 0..9 : Chars[d + 1] = c
DigitOf(c) == CHOOSE d \in 0..9 : Chars[d + 1] = c

Reverse(s) == [i \in 1..Len(s) |-> s[Len(s) + 1 - i]]

\* str.split(sep): the pieces of s between the occurrences of sep (no
\* separator in use can overlap another occurrence of itself)
Occurs(s, sep) ==
    {i \in 1..(Len(s) - Len(sep) + 1) : SubSeq(s, i, i + Len(sep) - 1) = sep}

split(s, sep) ==
    LET at == Occurs(s, sep)
        n == Cardinality(at)
        nth(k) == IF k = 0 THEN 1 - Len(sep)
                  ELSE IF k = n + 1 THEN Len(s) + 1
                  ELSE CHOOSE i \in at : Cardinality({j \in at : j <= i}) = k
    IN  <<>> \o [k \in 1..(n + 1) |->
                    SubSeq(s, nth(k - 1) + Len(sep), nth(k) - 1)]

\* str.rstrip(c), str.lstrip(c)
rstrip(s, c) ==
    SubSeq(s, 1, CHOOSE i \in 0..Len(s) :
                    /\ i = 0 \/ s[i] # c
                    /\ \A j \in (i + 1)..Len(s) : s[j] = c)

lstrip(s, c) ==
    SubSeq(s, (CHOOSE i \in 1..(Len(s) + 1) :
                    /\ i = Len(s) + 1 \/ s[i] # c
                    /\ \A j \in 1..(i - 1) : s[j] = c), Len(s))

\* str.strip(): without the white space at both ends
strip(s) == lstrip(rstrip(s, " "), " ")

\* ---- decimal arithmetic ----
\* A natural number is the sequence of its decimal digits, the least
\* significant first, without leading zeros; <<>> is 0.
\* 5 * n: half of 10 * n, digit by digit
Times5(n) ==
    rstrip(<<>> \o [i \in 1..(Len(n) + 1) |->
                ((IF i = 1 THEN 0 ELSE n[i - 1])
                    + 10 * ((IF i <= Len(n) THEN n[i] ELSE 0) % 2)) \div 2], 0)

\* 2 * n: a digit takes a carry when the digit below it is 5 or more
Twice(n) ==
    rstrip(<<>> \o [i \in 1..(Len(n) + 1) |->
                ((2 * (IF i <= Len(n) THEN n[i] ELSE 0)) % 10)
                    + (IF i > 1 /\ n[i - 1] >= 5 THEN 1 ELSE 0)], 0)

\* n * c^k, for c = 2 or c = 5
RECURSIVE Power(_, _, _)
Power(n, c, k) ==
    IF k = 0 THEN n
    ELSE IF k = 1 THEN (IF c = 5 THEN Times5(n) ELSE Twice(n))
    ELSE LET m == Power(n, c, k \div 2)
         IN IF Len(m) = 0 THEN <<>> ELSE Power(m, c, k - (k \div 2))

\* n + 1
RECURSIVE Succ(_)
Succ(n) ==
    IF n = <<>> THEN <<1>>
    ELSE IF n[1] < 9 THEN <<n[1] + 1>> \o Tail(n)
    ELSE <<0>> \o Succ(Tail(n))

\* n * 10^k
Shift(n, k) == IF n = <<>> THEN <<>> ELSE [i \in 1..k |-> 0] \o n

\* n - 1, for n > 0
RECURSIVE Pred(_)
Pred(n) ==
    IF n[1] > 0 THEN rstrip(<<n[1] - 1>> \o Tail(n), 0)
    ELSE <<9>> \o Pred(Tail(n))

Less(a, b) ==
    \/ Len(a) < Len(b)
    \/ /\ Len(a) = Len(b)
       /\ \E i \in 1..Len(a) :
            a[i] < b[i] /\ SubSeq(a, i + 1, Len(a)) = SubSeq(b, i + 1, Len(a))

Digit(n, i) == IF i <= Len(n) THEN n[i] ELSE 0

\* The number a sequence of digit characters (most significant first) writes.
NumberOf(cs) == rstrip([i \in 1..Len(cs) |-> DigitOf(cs[Len(cs) + 1 - i])], 0)

RECURSIVE ToInt(_)
ToInt(n) == IF n = <<>> THEN 0 ELSE n[1] + 10 * ToInt(Tail(n))

\* ---- double precision floats ----
\* A double other than 0 is m * 2^e for a mantissa m of 53 bits
\* (2^52 <= m < 2^53) and an exponent e, with a sign; 0 has m = 0.  A
\* double that is not one of Doubles is kept as the decimal m * 10^e it is
\* nearest to (known = FALSE).
Double(neg, m, e) == [known |-> TRUE, neg |-> neg, m |-> m, e |-> e]
Nearest(neg, m, e) == [known |-> FALSE, neg |-> neg, m |-> m, e |-> e]

Zero == Double(FALSE, <<>>, 0)
MinMantissa == Reverse(<<4, 5, 0, 3, 5, 9, 9, 6, 2, 7, 3, 7, 0, 4, 9, 6>>)
Mantissa_2_5 == Reverse(<<5, 6, 2, 9, 4, 9, 9, 5, 3, 4, 2, 1, 3, 1, 2, 0>>)
Mantissa_1_23 == Reverse(<<5, 5, 3, 9, 4, 2, 7, 5, 4, 1, 6, 6, 5, 7, 1, 0>>)

\* 2.5, 1.23 and 8.0; -2.5; and 1.23 * 2^-60 = 1.0668549377257363e-18
Doubles ==
    {Zero,
     Double(FALSE, Mantissa_2_5, -51),
     Double(FALSE, Mantissa_1_23, -52),
     Double(FALSE, MinMantissa, -49),
     Double(TRUE, Mantissa_2_5, -51),
     Double(FALSE, Mantissa_1_23, -112)}

\* format(x, '.32f'): the number of digits after the decimal point
FracDigits == 32

\* The natural number X * 2^q * 10^k, for k >= -q
Scaled(X, q, k) ==
    IF q < 0 THEN Shift(Power(X, 5, -q), k + q) ELSE Shift(Power(X, 2, q), k)

\* N / 10^k rounded to FracDigits digits after the point (half to even),
\* as a natural number of 10^-FracDigits
Rounded(N, k) ==
    LET drop == k - FracDigits
        kept == IF Len(N) > drop THEN SubSeq(N, drop + 1, Len(N)) ELSE <<>>
        top == IF drop = 0 THEN 0 ELSE Digit(N, drop)
        rest == \E i \in 1..(drop - 1) : Digit(N, i) # 0
        up == top > 5 \/ (top = 5 /\ (rest \/ Digit(kept, 1) % 2 = 1))
    IN IF up THEN Succ(kept) ELSE kept

\* format(x, '.32f')
format32f(x) ==
    LET k == IF -x.e > FracDigits THEN -x.e ELSE FracDigits
        F == IF x.m = <<>> THEN <<>> ELSE Rounded(Scaled(x.m, x.e, k), k)
        whole == IF Len(F) > FracDigits
                 THEN [i \in 1..(Len(F) - FracDigits) |->
                          DigitChar(F[Len(F) + 1 - i])]
                 ELSE <<"0">>
        frac == [i \in 1..FracDigits |-> DigitChar(Digit(F, FracDigits + 1 - i))]
    IN (IF x.neg THEN <<"-">> ELSE <<>>) \o whole \o <<".">> \o frac

\* format(x, '.32f').rstrip('0'), computed once for every x of Doubles
FloatTexts == {<<x, rstrip(format32f(x), "0")>> : x \in Doubles}
FloatText(x) == (CHOOSE p \in FloatTexts : p[1] = x)[2]

\* The decimals that round to x (x # 0): those between lo and hi, as
\* natural numbers of 10^-k; the ends round to x when m is even.
RoundingInterval(x) ==
    LET k == IF 2 - x.e > FracDigits THEN 2 - x.e ELSE FracDigits
    IN [x |-> x, k |-> k,
        lo |-> IF x.m = MinMantissa
               THEN Scaled(Pred(Twice(Twice(x.m))), x.e - 2, k)
               ELSE Scaled(Pred(Twice(x.m)), x.e - 1, k),
        hi |-> Scaled(Succ(Twice(x.m)), x.e - 1, k)]

RoundingIntervals == {RoundingInterval(x) : x \in Doubles \ {Zero}}

\* The decimal T * 10^-k rounds to the double of the interval r.
RoundsTo(T, k, r) ==
    LET j == IF k > r.k THEN k ELSE r.k
        t == Shift(T, j - k)
        lo == Shift(r.lo, j - r.k)
        hi == Shift(r.hi, j - r.k)
    IN \/ Less(lo, t) /\ Less(t, hi)
       \/ r.x.m[1] % 2 = 0 /\ (t = lo \/ t = hi)

\* The text of a decimal number: an optional sign, digits, an optional
\* point and more digits, with a digit somewhere.
Unsigned(t) == IF t # <<>> /\ t[1] \in {"-", "+"} THEN Tail(t) ELSE t
WholePart(t) == split(Unsigned(t), <<".">>)[1]
FracPart(t) ==
    IF Len(split(Unsigned(t), <<".">>)) = 2
    THEN split(Unsigned(t), <<".">>)[2] ELSE <<>>

IsDecimal(t) ==
    LET whole == WholePart(t)
        frac == FracPart(t)
    IN  /\ Len(split(Unsigned(t), <<".">>)) <= 2
        /\ \A i \in 1..Len(whole) : IsDigit(whole[i])
        /\ \A i \in 1..Len(frac) : IsDigit(frac[i])
        /\ Len(whole) + Len(frac) > 0

\* float(text) of a decimal number: the nearest double
float(t) ==
    LET neg == t # <<>> /\ t[1] = "-"
        k == Len(FracPart(t))
        T == NumberOf(WholePart(t) \o FracPart(t))
        fits == {r \in RoundingIntervals : r.x.neg = neg /\ RoundsTo(T, k, r)}
    IN IF T = <<>> THEN Zero
       ELSE IF fits # {} THEN (CHOOSE r \in fits : TRUE).x
       ELSE Nearest(neg, T, -k)

\* The digits of N before the last k
IntPart(N, k) == IF Len(N) > k THEN SubSeq(N, k + 1, Len(N)) ELSE <<>>

\* int(x) of a double: towards zero
int(x) ==
    LET n == IF ~x.known THEN IntPart(x.m, -x.e)
             ELSE IF x.e < 0 THEN IntPart(Power(x.m, 5, -x.e), -x.e)
             ELSE Power(x.m, 2, x.e)
    IN IF x.neg THEN -ToInt(n) ELSE ToInt(n)

\* ---- the detection file: _write_family and _read_family ----
\* A text is a sequence of one-character strings, except that a run of
\* letters that no operation here looks inside is kept as one element.

NoError == [type |-> "none", message |-> <<>>]

Raised(type, message) == [type |-> type, message |-> message]

\* The attributes of a Detection, in the order of its __dict__.
DetectionKeys ==
    <<"template_name", "detect_time", "no_chans", "chans", "detect_val",
      "threshold", "typeofdet", "threshold_type", "threshold_input",
      "event", "id">>

RequiredKeys ==
    {"template_name", "detect_time", "no_chans", "detect_val", "threshold",
     "typeofdet", "threshold_type", "threshold_input"}

FloatKeys == {"threshold", "detect_val", "threshold_input"}

CategoricalKeys == {"template_name", "typeofdet", "id", "threshold_type"}

None == [none |-> TRUE]

\* An event, as far as the file format looks at it: its resource id.
Event(rid) == [none |-> FALSE, rid |-> rid]

\* str() of a non-negative int
RECURSIVE IntText(_)
IntText(n) ==
    IF n < 10 THEN <<DigitChar(n)>>
    ELSE IntText(n \div 10) \o <<DigitChar(n % 10)>>

\* str() of a UTCDateTime t seconds into its minute
TimeText(t) ==
    <<"1970-01-01T00", ":", "00", ":", DigitChar(t \div 10),
      DigitChar(t % 10), ".", "0", "0", "0", "0", "0", "0", "Z">>

IsTime(text) == \E t \in 0..59 : TimeText(t) = text

UTCDateTime(text) == CHOOSE t \in 0..59 : TimeText(t) = text

\* str() of a list of (station, channel) tuples
RECURSIVE ItemsText(_)
ItemsText(c) ==
    IF c = <<>> THEN <<>>
    ELSE <<"(", "'", c[1][1], "'", ",", " ", "'", c[1][2], "'", ")">>
         \o (IF Len(c) = 1 THEN <<>> ELSE <<",", " ">> \o ItemsText(Tail(c)))

Chans(items) == [none |-> FALSE, items |-> items]

ChansText(c) ==
    IF c.none THEN <<"None">> ELSE <<"[">> \o ItemsText(c.items) \o <<"]">>

ChansValues ==
    {None, Chans(<<>>), Chans(<<<<"S", "C">>>>),
     Chans(<<<<"S", "C">>, <<"T", "C">>>>)}

IsLiteral(text) == \E c \in ChansValues : ChansText(c) = text

literal_eval(text) == CHOOSE c \in ChansValues : ChansText(c) = text

\* str() of the attribute key of detection det, when it is not a float
\* and not an event
str(det, key) ==
    IF key = "detect_time" THEN TimeText(det[key])
    ELSE IF key = "no_chans" THEN IntText(det[key])
    ELSE IF key = "chans" THEN ChansText(det[key])
    ELSE IF key = "event" THEN <<"None">>
    ELSE det[key]

\* The value written for one attribute of one detection.
ValueText(det, key) ==
    IF key = "event" /\ ~det.event.none THEN det.event.rid
    ELSE IF key \in FloatKeys THEN FloatText(det[key])
    ELSE str(det, key)

RECURSIVE det_str(_, _)
det_str(det, keys) ==
    IF keys = <<>> THEN <<>>
    ELSE <<Head(keys), ":", " ">> \o ValueText(det, Head(keys))
         \o <<";", " ">> \o det_str(det, Tail(keys))

\* _write_family: one line per detection
write_family(detections) ==
    [i \in 1..Len(detections) |-> det_str(detections[i], DetectionKeys)]

\* str(e.resource_id).split('/')[-1]
LastSegment(rid) == LET p == split(rid, <<"/">>) IN p[Len(p)]

Put(acc, key, value) ==
    [acc EXCEPT !.det_dict = (key :> value) @@ acc.det_dict]

Raise(acc, type, message) == [acc EXCEPT !.err = Raised(type, message)]

NotAFloat(value) ==
    <<"could not convert string to float", ":", " ", "'">> \o value \o <<"'">>

\* The branch of one key with its value.
ReadKey(acc, key, value, all_cat) ==
    IF key = <<"event">>
    THEN IF Len(all_cat) = 0
         THEN [acc EXCEPT !.gen_event = TRUE]
         ELSE IF \A j \in 1..Len(all_cat) : LastSegment(all_cat[j].rid) # value
         THEN Raise(acc, "IndexError", <<"list index out of range">>)
         ELSE Put(acc, key, SelectSeq(all_cat,
                              LAMBDA e : LastSegment(e.rid) = value)[1])
    ELSE IF key = <<"detect_time">>
    THEN IF IsTime(value) THEN Put(acc, key, UTCDateTime(value))
         ELSE Raise(acc, "TypeError", value)
    ELSE IF key = <<"chans">>
    THEN IF IsLiteral(value) THEN Put(acc, key, literal_eval(value))
         ELSE Raise(acc, "ValueError",
                    <<"malformed node or string", ":", " ">> \o value)
    ELSE IF \E k \in CategoricalKeys : key = <<k>>
    THEN Put(acc, key, value)
    ELSE IF key = <<"no_chans">>
    THEN IF IsDecimal(value) THEN Put(acc, key, int(float(value)))
         ELSE Raise(acc, "ValueError", NotAFloat(value))
    ELSE IF Len(key) = 0
    THEN acc
    ELSE IF IsDecimal(value) THEN Put(acc, key, float(value))
         ELSE Raise(acc, "ValueError", NotAFloat(value))

\* One key_pair of one line of the file: its key is the first and its
\* value the last of the pieces between the separators.
ReadPair(acc, key_pair, all_cat) ==
    ReadKey(acc, strip(Head(split(key_pair, <<":", " ">>))),
            strip(Head(Reverse(split(key_pair, <<":", " ">>)))), all_cat)

RECURSIVE ReadPairs(_, _, _)
ReadPairs(acc, pairs, all_cat) ==
    IF pairs = <<>> \/ acc.err # NoError THEN acc
    ELSE ReadPairs(ReadPair(acc, Head(pairs), all_cat), Tail(pairs), all_cat)

\* Detection(**det_dict): every required argument given, no unknown one;
\* chans, event and id default to None.
Detection_init(det_dict) ==
    LET given == DOMAIN det_dict
        known == Range(DetectionKeys)
        arg(k) == IF <<k>> \in given THEN det_dict[<<k>>]
                  ELSE IF k = "id" THEN <<"None">> ELSE None
    IN  IF given \ {<<k>> : k \in known} # {}
        THEN [err |-> Raised("TypeError",
                        <<"__init__() got an unexpected keyword argument">>),
              det |-> None]
        ELSE IF {<<k>> : k \in RequiredKeys} \ given # {}
        THEN [err |-> Raised("TypeError",
                        <<"__init__() missing required positional arguments">>),
              det |-> None]
        ELSE [err |-> NoError, det |-> [k \in known |-> arg(k)]]

\* Detection._calculate_event: an event made from the detection itself
calculate_event(det) == [det EXCEPT !.event = Event(det.id)]

\* The Detection of one line whose pairs have been read into acc.
MakeDetection(acc, made) ==
    IF acc.err # NoError THEN [err |-> acc.err, det |-> None]
    ELSE IF made.err # NoError THEN made
    ELSE IF acc.gen_event
    THEN [err |-> NoError, det |-> calculate_event(made.det)]
    ELSE made

ReadDict(acc) ==
    MakeDetection(acc, IF acc.err # NoError THEN [err |-> acc.err]
                       ELSE Detection_init(acc.det_dict))

\* One line of the file.
ReadLine(line, all_cat) ==
    ReadDict(ReadPairs([det_dict |-> EmptyFcn, gen_event |-> FALSE,
                        err |-> NoError],
                       split(rstrip(line, " "), <<";">>), all_cat))

\* _read_family: the detections of all lines, or the first error raised
RECURSIVE ReadLines(_, _, _)
ReadNext(r, lines, all_cat, detections) ==
    IF r.err # NoError THEN [err |-> r.err, res |-> <<>>]
    ELSE ReadLines(lines, all_cat, Append(detections, r.det))

ReadLines(lines, all_cat, detections) ==
    IF lines = <<>> THEN [err |-> NoError, res |-> detections]
    ELSE ReadNext(ReadLine(Head(lines), all_cat), Tail(lines), all_cat,
                  detections)

read_family(lines, all_cat) == ReadLines(lines, all_cat, <<>>)

\* ---- the state machine ----
\* A call of _write_family or _read_family: the detections written, the
\* pairs appended to its lines by hand afterwards, the companion
\* catalog read with, the error raised and the list returned.
CodecCall(op, detections, appended, all_cat, err, res) ==
    [op |-> op, detections |-> detections, appended |-> appended,
     all_cat |-> all_cat, err |-> err, res |-> res]

NoCall == CodecCall("start", <<>>, <<>>, <<>>, NoError, <<>>)

\* cat is the catalog a call was given (constructor, setter) or found cached
\* (getter).
Call(op, self, other, cat, err, res) ==
    [op |-> op, self |-> self, other |-> other, cat |-> cat,
     err |-> err, res |-> res]

Init ==
    /\ dets = EmptyFcn
    /\ lists = EmptyFcn
    /\ fams = EmptyFcn
    /\ heldDets = {}
    /\ heldLists = {}
    /\ combined = {}
    /\ last = Call("start", 0, NoRef, <<>>, "none", NoRef)
    /\ steps = 0
    /\ disk = <<>>
    /\ io = NoCall

\* The heap after a call: what nothing refers to is reclaimed.
Commit(h) ==
    LET g == Collect(h)
    IN /\ dets' = g.dets
       /\ lists' = g.lists
       /\ fams' = g.fams
       /\ heldDets' = g.heldDets
       /\ heldLists' = g.heldLists

Fits(h) == \A l \in DOMAIN h.lists : Len(h.lists[l]) <= MaxLen

\* The operands of a combination: a Detection, a Family, or a value that is
\* neither (the list ['albert'] of the doctest).
Operands ==
    {OtherRef} \cup {DetRef(d) : d \in heldDets}
        \cup {FamRef(f) : f \in DOMAIN fams}

\* The catalogs a caller can supply: none, or one with an event (0) that
\* was derived from no detection.
Catalogs == {<<>>, <<0>>}

\* The caller makes a Detection.
NewDetection(n, t, v) ==
    /\ steps < MaxSteps
    /\ FreeDets(Heap) # {}
    /\ LET d == Min(FreeDets(Heap))
       IN /\ Commit([Heap EXCEPT !.dets = d :> Detection(d, n, t, v) @@ dets,
                                 !.heldDets = heldDets \cup {d}])
          /\ last' = Call("Detection", 0, DetRef(d), <<>>, "none", DetRef(d))
    /\ steps' = steps + 1
    /\ UNCHANGED <<combined, disk, io>>

\* Family(template, detections, catalog).  The detections argument is
\* None, a Detection, a list the caller holds, or a new list of Detections
\* the caller holds (lit), for which the caller keeps a name.
Construct(n, arg, lit, cat) ==
    /\ steps < MaxSteps
    /\ arg.kind \in {"none", "detection", "list", "literal"}
    /\ arg.kind = "literal" <=> lit # <<>>
    /\ FreeFams(Heap) # {}
    /\ Cardinality(FreeLists(Heap)) >= 2
    /\ LET nl == NewList(Heap, lit)
           h0 == IF arg.kind = "literal"
                 THEN [nl.h EXCEPT !.heldLists = heldLists \cup {nl.l}]
                 ELSE Heap
           a0 == IF arg.kind = "literal" THEN ListRef(nl.l) ELSE arg
           r == Family_init(h0, Template(n), a0, cat)
       IN /\ Commit(r.h)
          /\ last' = Call("init", r.res.id, a0, cat, r.err, r.res)
    /\ steps' = steps + 1
    /\ UNCHANGED <<combined, disk, io>>

\* family.catalog
ReadCatalog(f) ==
    /\ steps < MaxSteps
    /\ LET r == Family_catalog(Heap, f)
       IN /\ Commit(r.h)
          /\ last' = Call("catalog", f, NoRef, fams[f].catalog, r.err, r.res)
    /\ steps' = steps + 1
    /\ UNCHANGED <<combined, disk, io>>

\* family.catalog = cat
SetCatalog(f, cat) ==
    /\ steps < MaxSteps
    /\ LET r == Family_catalog_set(Heap, f, cat)
       IN /\ Commit(r.h)
          /\ last' = Call("catalog_set", f, NoRef, cat, r.err, r.res)
    /\ steps' = steps + 1
    /\ UNCHANGED <<combined, disk, io>>

\* family += other
IAdd(f, other) ==
    /\ steps < MaxSteps
    /\ LET r == Family_iadd(Heap, f, other)
       IN /\ Fits(r.h)
          /\ Commit(r.h)
          /\ last' = Call("iadd", f, other, <<>>, r.err, r.res)
    /\ steps' = steps + 1
    /\ UNCHANGED <<combined, disk, io>>

CanCopy(f) ==
    /\ FreeFams(Heap) # {}
    /\ FreeLists(Heap) # {}
    /\ Cardinality(FreeDets(Heap)) >= Cardinality(Range(DetsOf(Heap, f)))

\* result = family + other
Add(f, other) ==
    /\ steps < MaxSteps
    /\ CanCopy(f)
    /\ LET r == Family_add(Heap, f, other)
       IN /\ Fits(r.h)
          /\ Commit(r.h)
          /\ last' = Call("add", f, other, <<>>, r.err, r.res)
          /\ combined' = IF r.err = "none" /\ other.kind = "family"
                         THEN combined \cup {<<r.res.id, f, other.id>>}
                         ELSE combined
    /\ steps' = steps + 1
    /\ UNCHANGED <<disk, io>>

\* result = family.append(other)
AppendTo(f, other) ==
    /\ steps < MaxSteps
    /\ CanCopy(f)
    /\ LET r == Family_append(Heap, f, other)
       IN /\ Fits(r.h)
          /\ Commit(r.h)
          /\ last' = Call("append", f, other, <<>>, r.err, r.res)
    /\ steps' = steps + 1
    /\ UNCHANGED <<combined, disk, io>>

\* family.sort()
Sort(f) ==
    /\ steps < MaxSteps
    /\ FreeLists(Heap) # {}
    /\ LET r == Family_sort(Heap, f)
       IN /\ Commit(r.h)
          /\ last' = Call("sort", f, NoRef, <<>>, r.err, r.res)
    /\ steps' = steps + 1
    /\ UNCHANGED <<combined, disk, io>>

\* family._uniq()
Uniq(f) ==
    /\ steps < MaxSteps
    /\ FreeLists(Heap) # {}
    /\ LET r == Family_uniq(Heap, f)
       IN /\ Commit(r.h)
          /\ last' = Call("uniq", f, NoRef, <<>>, r.err, r.res)
    /\ steps' = steps + 1
    /\ UNCHANGED <<combined, disk, io>>

\* result = family.copy()
Copy(f) ==
    /\ steps < MaxSteps
    /\ CanCopy(f)
    /\ LET r == Family_copy(Heap, f)
       IN /\ Commit(r.h)
          /\ last' = Call("copy", f, NoRef, <<>>, r.err, r.res)
    /\ steps' = steps + 1
    /\ UNCHANGED <<combined, disk, io>>

\* family == other
Eq(f, g) ==
    /\ steps < MaxSteps
    /\ Cardinality(FreeLists(Heap)) >= 2
    /\ LET r == Family_eq(Heap, f, g)
       IN /\ Commit(r.h)
          /\ last' = Call("eq", f, FamRef(g), <<>>, r.err, r.res)
    /\ steps' = steps + 1
    /\ UNCHANGED <<combined, disk, io>>

\* family != other
Ne(f, g) ==
    /\ steps < MaxSteps
    /\ Cardinality(FreeLists(Heap)) >= 2
    /\ LET r == Family_ne(Heap, f, g)
       IN /\ Commit(r.h)
          /\ last' = Call("ne", f, FamRef(g), <<>>, r.err, r.res)
    /\ steps' = steps + 1
    /\ UNCHANGED <<combined, disk, io>>

\* The caller assigns detection.detect_val of a Detection it can reach.
SetDetectVal(d, v) ==
    /\ steps < MaxSteps
    /\ dets[d].detect_val # v
    /\ Commit([Heap EXCEPT !.dets[d].detect_val = v])
    /\ last' = Call("setattr", 0, DetRef(d), <<>>, "none", NoRef)
    /\ steps' = steps + 1
    /\ UNCHANGED <<combined, disk, io>>

\* The list literals of a caller: one or two Detections it holds.
Literals == UNION {[1..n -> heldDets] : n \in 1..2}

\* The detections a caller passes together with a catalog.
CatalogArgs == {NoRef} \cup {DetRef(d) : d \in heldDets}

ConstructArgs ==
    {<<a, <<>>>> : a \in {NoRef} \cup {DetRef(d) : d \in heldDets}
                            \cup {ListRef(l) : l \in heldLists}}
        \cup {<<[kind |-> "literal", id |-> 0], s>> : s \in Literals}

Next ==
    \/ \E x \in DetValues : NewDetection(x[1], x[2], x[3])
    \/ \E n \in Names, a \in ConstructArgs : Construct(n, a[1], a[2], <<>>)
    \/ \E n \in Names, a \in CatalogArgs : Construct(n, a, <<>>, <<0>>)
    \/ \E f \in DOMAIN fams : ReadCatalog(f)
    \/ \E f \in DOMAIN fams, cat \in Catalogs : SetCatalog(f, cat)
    \/ \E f \in DOMAIN fams, other \in Operands : IAdd(f, other)
    \/ \E f \in DOMAIN fams, other \in Operands : Add(f, other)
    \/ \E f \in DOMAIN fams, other \in Operands : AppendTo(f, other)
    \/ \E f \in DOMAIN fams : Sort(f)
    \/ \E f \in DOMAIN fams : Uniq(f)
    \/ \E f \in DOMAIN fams : Copy(f)
    \/ \E f \in DOMAIN fams, g \in DOMAIN fams : Eq(f, g)
    \/ \E f \in DOMAIN fams, g \in DOMAIN fams : Ne(f, g)
    \/ \E d \in DOMAIN dets, v \in Vals : SetDetectVal(d, v)

Spec == Init /\ [][Next]_vars

\* ---- one Family and its copies ----
\* Sort, _uniq and copy act on one Family whatever else the caller holds:
\* SpecOne starts from a caller that made MaxPool Detections and one Family
\* of template a from a list of up to MaxLit of them (any of them any
\* number of times), and makes up to MaxOps calls.
MaxPool == 3
MaxLit == 3
MaxOps == 2

PoolIds == 1..MaxPool

\* The Detections of a pool are made in the order of their values: lists
\* take them in any order.
ValueRank(x) ==
    (IF x[1] = "a" THEN 0 ELSE MaxTime * MaxVal) + (x[2] - 1) * MaxVal + x[3]

Pools ==
    {p \in [PoolIds -> DetValues] :
        \A i \in 1..(MaxPool - 1) : ValueRank(p[i]) <= ValueRank(p[i + 1])}

PoolHeap(p) ==
    [dets |-> [d \in PoolIds |-> Detection(d, p[d][1], p[d][2], p[d][3])],
     lists |-> EmptyFcn, fams |-> EmptyFcn,
     heldDets |-> PoolIds, heldLists |-> {}]

LitsUpTo(n) == UNION {[1..k -> PoolIds] : k \in 0..n}

\* Family(Template(n), s) for a list s the caller keeps no name for.
ConstructFrom(h, n, s) ==
    LET nl == NewList(h, s)
    IN Family_init(nl.h, Template(n),
                   IF s = <<>> THEN NoRef ELSE ListRef(nl.l), <<>>)

InitOne ==
    \E p \in Pools, s \in LitsUpTo(MaxLit) :
        LET r == ConstructFrom(PoolHeap(p), "a", s)
            g == Collect(r.h)
        IN /\ dets = g.dets
           /\ lists = g.lists
           /\ fams = g.fams
           /\ heldDets = g.heldDets
           /\ heldLists = g.heldLists
           /\ combined = {}
           /\ last = Call("init", r.res.id, NoRef, <<>>, r.err, r.res)
           /\ steps = 0
           /\ disk = <<>>
           /\ io = NoCall

NextOne ==
    \/ steps < MaxOps /\ \E f \in DOMAIN fams : Sort(f)
    \/ steps < MaxOps /\ \E f \in DOMAIN fams : Uniq(f)
    \/ steps < MaxOps /\ \E f \in DOMAIN fams : Copy(f)
    \/ steps < MaxOps /\ \E f \in DOMAIN fams, d \in heldDets : IAdd(f, DetRef(d))
    \/ steps < MaxOps /\ \E d \in DOMAIN dets, v \in Vals : SetDetectVal(d, v)

SpecOne == InitOne /\ [][NextOne]_vars

\* ---- two Families ----
\* == and != compare two Families whatever else the caller holds: SpecTwo
\* starts from a caller that made MaxPool Detections, a Family of template
\* a and a Family of template a or b, each from a list of up to MaxPair of
\* the Detections, and makes up to MaxCompare comparisons.
MaxPair == 2
MaxCompare == 1

InitTwo ==
    \E p \in Pools, s \in LitsUpTo(MaxPair), t \in LitsUpTo(MaxPair),
       n \in Names :
        LET r1 == ConstructFrom(PoolHeap(p), "a", s)
            r2 == ConstructFrom(Collect(r1.h), n, t)
            g == Collect(r2.h)
        IN /\ dets = g.dets
           /\ lists = g.lists
           /\ fams = g.fams
           /\ heldDets = g.heldDets
           /\ heldLists = g.heldLists
           /\ combined = {}
           /\ last = Call("init", r2.res.id, NoRef, <<>>, r2.err, r2.res)
           /\ steps = 0
           /\ disk = <<>>
           /\ io = NoCall

NextTwo ==
    \/ steps < MaxCompare /\ \E f \in DOMAIN fams, g \in DOMAIN fams : Eq(f, g)
    \/ steps < MaxCompare /\ \E f \in DOMAIN fams, g \in DOMAIN fams : Ne(f, g)

SpecTwo == InitTwo /\ [][NextTwo]_vars

\* ---- a detection file written, edited by hand and read back ----
MaxWrite == 2     \* detections in a written list
MaxAppend == 1    \* pairs appended by hand to a written file

\* The detection of the scenario: detect_val 2.5, threshold 1.23,
\* threshold_input 8.0, no event.
BaseDetection ==
    [template_name |-> <<"a">>, detect_time |-> 10, no_chans |-> 8,
     chans |-> Chans(<<<<"S", "C">>>>),
     detect_val |-> Double(FALSE, Mantissa_2_5, -51),
     threshold |-> Double(FALSE, Mantissa_1_23, -52),
     typeofdet |-> <<"corr">>, threshold_type |-> <<"MAD">>,
     threshold_input |-> Double(FALSE, MinMantissa, -49),
     event |-> None, id |-> <<"a_0">>]

\* Resource ids: a bare one, one of the form smi:local/..., and one whose
\* last segment is the bare one.
ResourceIds ==
    {<<"e1">>, <<"smi", ":", "local", "/", "e2">>, <<"x", "/", "e1">>}

\* Detections that differ from the scenario's in one attribute.
Detections ==
    {[BaseDetection EXCEPT !.detect_val = x] : x \in Doubles}
    \cup {[BaseDetection EXCEPT !.threshold =
                                   Double(FALSE, Mantissa_1_23, -112)]}
    \cup {[BaseDetection EXCEPT !.event = Event(r)] :
            r \in {x \in ResourceIds : x[1] # "x"}}
    \cup {[BaseDetection EXCEPT !.chans = None]}

DetectionLists == UNION {[1..n -> Detections] : n \in 0..MaxWrite}

\* Companion catalogs
Companions ==
    {<<>>,
     <<Event(<<"e1">>)>>,
     <<Event(<<"smi", ":", "local", "/", "e2">>)>>,
     <<Event(<<"x", "/", "e1">>), Event(<<"e1">>)>>}

\* A pair with an empty key
EmptyKeyPairs == {<<":", " ", "5">>}

\* Malformed pairs: no separator, a value that is no number, a key that
\* is no attribute, two separators
MalformedPairs ==
    {<<"template_name">>,
     <<"detect_val", ":", " ", "abc">>,
     <<"bogus", ":", " ", "1", ".", "5">>,
     <<"detect_val", ":", " ", "1", ":", " ", "2">>}

\* _write_family(detections, fname), of a file that does not exist yet
WriteFamily(detections) ==
    /\ io.op = "start"
    /\ disk' = write_family(detections)
    /\ io' = CodecCall("write", detections, <<>>, <<>>, NoError, <<>>)
    /\ UNCHANGED <<dets, lists, fams, heldDets, heldLists, combined, last,
                   steps>>

\* The file's line i gets one more pair, written by hand.
AppendPair(i, pair) ==
    /\ io.op = "write"
    /\ Len(io.appended) < MaxAppend
    /\ disk' = [disk EXCEPT ![i] = @ \o pair \o <<";", " ">>]
    /\ io' = [io EXCEPT !.appended = Append(@, [line |-> i, pair |-> pair])]
    /\ UNCHANGED <<dets, lists, fams, heldDets, heldLists, combined, last,
                   steps>>

\* _read_family(fname, all_cat, template) of the file, once
ReadFamily(all_cat) ==
    /\ io.op = "write"
    /\ \E r \in {read_family(disk, all_cat)} :
            io' = CodecCall("read", io.detections, io.appended, all_cat,
                            r.err, r.res)
    /\ UNCHANGED <<dets, lists, fams, heldDets, heldLists, combined, last,
                   steps, disk>>

NextCodec ==
    \/ \E detections \in DetectionLists : WriteFamily(detections)
    \/ \E i \in 1..Len(disk), pair \in EmptyKeyPairs \cup MalformedPairs :
            AppendPair(i, pair)
    \/ \E all_cat \in Companions : ReadFamily(all_cat)

SpecCodec == Init /\ [][NextCodec]_vars

\* ---- what a caller observes ----
\* The Detection records of family f, by position.
Records(h, f) == [i \in 1..Len(DetsOf(h, f)) |-> h.dets[DetsOf(h, f)[i]]]

\* Everything of family f: its template, its Detection objects and their
\* fields, and its cached catalog.
View(h, f) ==
    [template |-> h.fams[f].template, ids |-> DetsOf(h, f),
     records |-> Records(h, f), catalog |-> h.fams[f].catalog]

\* The value of an operand of a combination.
OperandView(h, o) ==
    IF o.kind = "family" THEN View(h, o.id)
    ELSE IF o.kind = "detection" THEN [record |-> h.dets[o.id]]
    ELSE [record |-> o]

Stepped == steps' = steps + 1

Combining == Stepped /\ last'.op \in {"iadd", "add"}

\* The template identity of the right operand equals / differs from the
\* family's.
SameIdentity(f, o) ==
    \/ o.kind = "family" /\ fams[o.id].template.name = fams[f].template.name
    \/ o.kind = "detection" /\ dets[o.id].template_name = fams[f].template.name

OtherIdentity(f, o) ==
    \/ o.kind = "family" /\ fams[o.id].template.name # fams[f].template.name
    \/ o.kind = "detection" /\ dets[o.id].template_name # fams[f].template.name

\* C1: combining two Families of the same template name with + or +=
\* succeeds, and the result has len(A) + len(B) detections.
C1_CombineLength ==
    [][(Combining /\ last'.other.kind = "family"
            /\ SameIdentity(last'.self, last'.other))
        => /\ last'.err = "none"
           /\ last'.res.kind = "family"
           /\ Len(DetsOf(Heap', last'.res.id))
                = Len(DetsOf(Heap, last'.self))
                    + Len(DetsOf(Heap, last'.other.id))]_vars

C1_Witness ==
    /\ last.op \in {"iadd", "add"}
    /\ last.err = "none"
    /\ last.other.kind = "family"
    /\ last.other.id # last.self
    /\ last.res.id # last.other.id
    /\ Len(DetsOf(Heap, last.other.id)) >= 1
    /\ Len(DetsOf(Heap, last.res.id)) > Len(DetsOf(Heap, last.other.id))

\* C2: combining with a Family or a Detection of another template identity
\* raises TemplateMismatch, for + and for +=, and every operand keeps its
\* detections and its summary.
C2_MismatchRaises ==
    [][(Combining /\ OtherIdentity(last'.self, last'.other))
        => /\ last'.err = TemplateMismatch
           /\ View(Heap', last'.self) = View(Heap, last'.self)
           /\ OperandView(Heap', last'.other) = OperandView(Heap, last'.other)]_vars

C2_Witness ==
    /\ last.op \in {"iadd", "add"}
    /\ last.err = TemplateMismatch
    /\ last.other.kind = "family"
    /\ Len(DetsOf(Heap, last.self)) >= 1
    /\ Len(DetsOf(Heap, last.other.id)) >= 1

\* C3: combining a Family with a Detection of its template identity
\* succeeds: the Detection is the last element of the result, the earlier
\* detections keep their positions, the length and the summary grow by one.
C3_AppendDetection ==
    [][(Combining /\ last'.other.kind = "detection"
            /\ SameIdentity(last'.self, last'.other))
        => /\ last'.err = "none"
           /\ last'.res.kind = "family"
           /\ LET before == DetsOf(Heap, last'.self)
                  after == DetsOf(Heap', last'.res.id)
              IN /\ Len(after) = Len(before) + 1
                 /\ after[Len(after)] = last'.other.id
                 /\ \A i \in 1..Len(before) :
                        Records(Heap', last'.res.id)[i]
                            = Records(Heap, last'.self)[i]
                 /\ Len(fams'[last'.res.id].catalog)
                        = Len(fams[last'.self].catalog) + 1]_vars

C3_Witness ==
    /\ last.op \in {"iadd", "add"}
    /\ last.err = "none"
    /\ last.other.kind = "detection"
    /\ Len(DetsOf(Heap, last.res.id)) >= 2

\* C4: combining a Family with a value that is neither a Family nor a
\* Detection raises UnsupportedCombination, which is not TemplateMismatch,
\* and the Family keeps its detections and its summary.
C4_UnsupportedRaises ==
    [][(Combining /\ last'.other.kind \notin {"family", "detection"})
        => /\ last'.err = UnsupportedCombination
           /\ last'.err # TemplateMismatch
           /\ View(Heap', last'.self) = View(Heap, last'.self)]_vars

C4_Witness ==
    /\ last.op \in {"iadd", "add"}
    /\ last.err = UnsupportedCombination
    /\ Len(DetsOf(Heap, last.self)) >= 1

\* C5: A + other, whether it succeeds or raises, leaves A and the right
\* operand with the detections (same objects, order, length, fields) and the
\* template they had.
C5_AddLeavesOperands ==
    [][(Stepped /\ last'.op = "add")
        => /\ View(Heap', last'.self).ids = View(Heap, last'.self).ids
           /\ View(Heap', last'.self).records = View(Heap, last'.self).records
           /\ View(Heap', last'.self).template = View(Heap, last'.self).template
           /\ last'.other.kind = "family"
                => /\ View(Heap', last'.other.id).ids
                        = View(Heap, last'.other.id).ids
                   /\ View(Heap', last'.other.id).records
                        = View(Heap, last'.other.id).records
                   /\ View(Heap', last'.other.id).template
                        = View(Heap, last'.other.id).template
           /\ last'.other.kind = "detection"
                => dets'[last'.other.id] = dets[last'.other.id]]_vars

C5_Witness ==
    /\ last.op = "add"
    /\ last.err = "none"
    /\ last.other = FamRef(last.self)
    /\ Len(DetsOf(Heap, last.self)) >= 1
    /\ Len(DetsOf(Heap, last.res.id)) = 2 * Len(DetsOf(Heap, last.self))

\* C6 (as claimed): once c = a + b is made, no in-place operation on a or
\* on b and no change of a Detection record held by a or by b changes the
\* detections, or their fields, seen through c.
C6_ResultIndependent ==
    [][\A t \in combined :
        LET c == t[1]
            a == t[2]
            b == t[3]
        IN (/\ Stepped
            /\ c \notin {a, b}
            /\ \/ last'.op \in {"iadd", "sort", "uniq"} /\ last'.self \in {a, b}
               \/ /\ last'.op = "setattr"
                  /\ last'.other.id \in
                        Range(DetsOf(Heap, a)) \cup Range(DetsOf(Heap, b)))
           => Records(Heap', c) = Records(Heap, c)]_vars

\* C7 (as claimed): appending a Detection of the family's template identity
\* to a Family of 0 detections leaves that Family with 1 detection; appending
\* one of another identity raises TemplateMismatch and keeps the length.
C7_AppendAddsToFamily ==
    [][(Stepped /\ last'.op = "append" /\ last'.other.kind = "detection")
        => /\ (SameIdentity(last'.self, last'.other)
                    /\ Len(DetsOf(Heap, last'.self)) = 0)
                => Len(DetsOf(Heap', last'.self)) = 1
           /\ OtherIdentity(last'.self, last'.other)
                => /\ last'.err = TemplateMismatch
                   /\ Len(DetsOf(Heap', last'.self))
                        = Len(DetsOf(Heap, last'.self))]_vars

\* C8: a successful combination of two Families gives the left operand's
\* detections followed by the right operand's, each in its order: nothing
\* is sorted by time, no value-equal duplicate is removed.
C8_Concatenation ==
    [][(Combining /\ last'.other.kind = "family" /\ last'.err = "none")
        => /\ Records(Heap', last'.res.id)
                = Records(Heap, last'.self) \o Records(Heap, last'.other.id)
           /\ last'.op = "iadd"
                => DetsOf(Heap', last'.res.id)
                    = DetsOf(Heap, last'.self) \o DetsOf(Heap, last'.other.id)]_vars

\* The result of the last combination is out of time order and holds two
\* value-equal detections.
C8_Witness ==
    /\ last.op \in {"iadd", "add"}
    /\ last.err = "none"
    /\ last.other.kind = "family"
    /\ LET r == Records(Heap, last.res.id)
       IN /\ \E i, j \in 1..Len(r) : i < j /\ r[i].detect_time > r[j].detect_time
          /\ \E i, j \in 1..Len(r) : i < j /\ DetectionEq(r[i], r[j])

\* C9: every read of the summary returns a summary with one entry per
\* detection of the Family.
C9_SummaryLength ==
    last.op = "catalog"
        => Len(fams[last.self].catalog) = Len(DetsOf(Heap, last.self))

\* A read that found the cached summary with another length than the
\* detections.
C9_Witness ==
    /\ last.op = "catalog"
    /\ Len(last.cat) # Len(DetsOf(Heap, last.self))

\* C10: setting the summary raises UnsupportedOperation and changes nothing;
\* a summary passed to the constructor is not used, the summary of the new
\* Family is the one derived from its detections.
C10_SummaryNotSettable ==
    [][/\ (Stepped /\ last'.op = "catalog_set")
            => /\ last'.err = UnsupportedOperation
               /\ View(Heap', last'.self) = View(Heap, last'.self)
       /\ (Stepped /\ last'.op = "init")
            => fams'[last'.res.id].catalog
                = get_catalog(Heap', DetsOf(Heap', last'.res.id))]_vars

C10_Witness ==
    /\ last.op = "init"
    /\ last.cat # <<>>
    /\ Len(DetsOf(Heap, last.res.id)) >= 1
    /\ fams[last.res.id].catalog # last.cat

\* ---- _uniq, sort and copy of one Family (SpecOne) ----
\* The positions of s at which a Detection is seen for the first time:
\* no Detection at an earlier position equals it.
FirstSeen(h, s) ==
    {i \in 1..Len(s) :
        \A j \in 1..(i - 1) : ~DetectionEq(h.dets[s[j]], h.dets[s[i]])}

\* How often the object d occurs in the list s.
Occurrences(s, d) == Cardinality({i \in 1..Len(s) : s[i] = d})

Deduplicating == Stepped /\ last'.op = "uniq"

\* C11: _uniq leaves exactly the Detections at the first-seen positions of
\* the list, in that order: no two Detections of the result are equal,
\* every Detection of the list equals one that is kept, every kept
\* Detection is the object at the earliest position of its value, and the
\* family itself is returned.
C11_KeepsFirstSeen ==
    [][Deduplicating =>
        LET f == last'.self
            before == DetsOf(Heap, f)
            after == DetsOf(Heap', f)
            first == FirstSeen(Heap, before)
        IN /\ last'.err = "none"
           /\ last'.res = FamRef(f)
           /\ Len(after) = Cardinality(first)
           /\ \A i, j \in 1..Len(after) :
                i # j => ~DetectionEq(dets'[after[i]], dets'[after[j]])
           /\ \A i \in 1..Len(before) : \E k \in 1..Len(after) :
                DetectionEq(dets[before[i]], dets'[after[k]])
           /\ \E g \in [1..Len(after) -> 1..Len(before)] :
                /\ \A k \in 1..Len(after) :
                     g[k] \in first /\ after[k] = before[g[k]]
                /\ \A k \in 1..(Len(after) - 1) : g[k] < g[k + 1]]_vars

\* A Family of three Detections with one duplicate has become one of two:
\* the catalog still has the three events of the list before.
C11_Witness ==
    /\ last.op = "uniq"
    /\ steps = 1
    /\ Len(fams[last.self].catalog) = 3
    /\ Len(DetsOf(Heap, last.self)) = 2

\* C12: _uniq of a Family that _uniq has just returned leaves its list of
\* detections as it is, both when computed on the result and when called
\* again as the next call.
C12_UniqIdempotent ==
    [][/\ Deduplicating =>
            DetsOf(Family_uniq(Heap', last'.self).h, last'.self)
                = DetsOf(Heap', last'.self)
       /\ (Deduplicating /\ last.op = "uniq" /\ last.self = last'.self) =>
            DetsOf(Heap', last'.self) = DetsOf(Heap, last'.self)]_vars

\* _uniq has removed two of three equal Detections.
C12_Witness ==
    /\ last.op = "uniq"
    /\ steps = 1
    /\ Len(fams[last.self].catalog) = 3
    /\ Len(DetsOf(Heap, last.self)) = 1

\* The Detections of s with trigger time t, in the order of s.
AtTime(h, s, t) == SelectSeq(s, LAMBDA d : h.dets[d].detect_time = t)

Sorting == Stepped /\ last'.op = "sort"

\* C13: sort returns the family itself with the same Detection objects
\* (each as often as before) in ascending order of trigger time, those of
\* one trigger time in the order they had, and sorting the result again
\* leaves the order as it is.
C13_SortStable ==
    [][Sorting =>
        LET f == last'.self
            before == DetsOf(Heap, f)
            after == DetsOf(Heap', f)
        IN /\ last'.err = "none"
           /\ last'.res = FamRef(f)
           /\ Len(after) = Len(before)
           /\ \A d \in Range(before) \cup Range(after) :
                Occurrences(after, d) = Occurrences(before, d)
           /\ \A d \in Range(after) : dets'[d] = dets[d]
           /\ \A i \in 1..(Len(after) - 1) :
                dets'[after[i]].detect_time <= dets'[after[i + 1]].detect_time
           /\ \A t \in Times : AtTime(Heap', after, t) = AtTime(Heap, before, t)
           /\ DetsOf(Family_sort(Heap', f).h, f) = after]_vars

\* sort has reordered a Family (its catalog still has the old order) that
\* holds two different Detections of one trigger time and one of another.
C13_Witness ==
    /\ last.op = "sort"
    /\ steps = 1
    /\ LET s == DetsOf(Heap, last.self)
       IN /\ Len(s) = 3
          /\ \E k \in 1..3 : fams[last.self].catalog[k] # dets[s[k]].event
          /\ \E i, j \in 1..3 :
                /\ i < j
                /\ dets[s[i]].detect_time = dets[s[j]].detect_time
                /\ dets[s[i]].detect_val # dets[s[j]].detect_val
          /\ dets[s[1]].detect_time # dets[s[3]].detect_time

Copying == Stepped /\ last'.op = "copy"

\* C16: copy returns a new Family that equals the original and has its own
\* list and its own Detection objects with the fields of the original's,
\* and leaves the original as it is; from then on += , sort and _uniq of
\* one of the two, and an assignment to a field of a Detection that only
\* one of them holds, leave the other as it is.
C16_CopyIndependent ==
    [][/\ Copying =>
            LET f == last'.self
                c == last'.res.id
            IN /\ last'.err = "none"
               /\ c \notin DOMAIN fams
               /\ Family_eq(Heap', c, f).res = BoolRef(TRUE)
               /\ \A i \in 1..Len(DetsOf(Heap, f)) :
                    Records(Heap', c)[i] = Records(Heap, f)[i]
               /\ Len(DetsOf(Heap', c)) = Len(DetsOf(Heap, f))
               /\ fams'[c].detections # fams'[f].detections
               /\ Range(DetsOf(Heap', c)) \cap Range(DetsOf(Heap', f)) = {}
               /\ View(Heap', f) = View(Heap, f)
       /\ \A f \in DOMAIN fams, g \in DOMAIN fams :
            (/\ f # g
             /\ Stepped
             /\ \/ last'.op \in {"iadd", "sort", "uniq"} /\ last'.self = f
                \/ /\ last'.op = "setattr"
                   /\ last'.other.id \in Range(DetsOf(Heap, f))
                   /\ last'.other.id \notin Range(DetsOf(Heap, g)))
            => View(Heap', g) = View(Heap, g)]_vars

\* A Detection of one of an original and its copy was changed after the
\* copy was made, and the two now differ in that Detection.
C16_Witness ==
    /\ last.op = "setattr"
    /\ steps = 2
    /\ \E f \in DOMAIN fams, g \in DOMAIN fams :
        /\ f # g
        /\ last.other.id \in Range(DetsOf(Heap, f))
        /\ Len(DetsOf(Heap, f)) = 3
        /\ Len(DetsOf(Heap, g)) = 3
        /\ Records(Heap, f) # Records(Heap, g)
\* ---- == and != of two Families (SpecTwo) ----
Comparing == Stepped /\ last'.op \in {"eq", "ne"}

\* C14: a Family equals itself, and f == g gives what g == f gives on the
\* same two Families; != gives the opposite in both cases.
C14_EqReflexiveSymmetric ==
    [][Comparing =>
        LET f == last'.self
            g == last'.other.id
        IN /\ last'.err = "none"
           /\ last'.op = "eq" =>
                /\ f = g => last'.res = BoolRef(TRUE)
                /\ last'.res = Family_eq(Heap, g, f).res
           /\ last'.op = "ne" =>
                /\ f = g => last'.res = BoolRef(FALSE)
                /\ last'.res = Family_ne(Heap, g, f).res]_vars

\* Two different Families of two Detections each were found equal although
\* their lists had the Detections in different orders.
C14_Witness ==
    /\ last.op = "eq"
    /\ steps = 1
    /\ last.self # last.other.id
    /\ last.res = BoolRef(TRUE)
    /\ Len(DetsOf(Heap, last.self)) = 2
    /\ \E k \in 1..2 :
        fams[last.self].catalog[k] # dets[DetsOf(Heap, last.self)[k]].event

\* C15: f == g is true whenever the templates are equal and the list of g
\* holds the Detection objects of the list of f (all of the family's
\* template), each as often, in any order.
C15_OrderInsensitive ==
    [][(/\ Stepped
        /\ last'.op = "eq"
        /\ TemplateEq(fams[last'.self].template, fams[last'.other.id].template)
        /\ \A d \in Range(DetsOf(Heap, last'.self)) :
            dets[d].template_name = fams[last'.self].template.name
        /\ Len(DetsOf(Heap, last'.self)) = Len(DetsOf(Heap, last'.other.id))
        /\ \A d \in DOMAIN dets :
            Occurrences(DetsOf(Heap, last'.self), d)
                = Occurrences(DetsOf(Heap, last'.other.id), d))
        => last'.res = BoolRef(TRUE)]_vars

\* ---- the detection file: claims ----
\* The file has been read back as it was written.
ReadBack == io.op = "read" /\ io.appended = <<>>

\* The attributes that Detection equality compares.
ComparedKeys == Range(DetectionKeys) \ {"event"}

\* The companion catalog has an event of every resource id in rids.
Holds(all_cat, rids) ==
    \A r \in rids : \E j \in 1..Len(all_cat) : all_cat[j].rid = r

EventIds(detections) ==
    {detections[i].event.rid :
        i \in {j \in 1..Len(detections) : ~detections[j].event.none}}

\* C17: reading back a written list of Detections, with a companion catalog
\* that is empty or has the event of every Detection (each having one),
\* raises nothing and returns as many Detections, in the same order, each
\* equal to the original in every attribute that equality compares.
C17_RoundTrip ==
    (/\ ReadBack
     /\ \/ io.all_cat = <<>>
        \/ /\ \A i \in 1..Len(io.detections) : ~io.detections[i].event.none
           /\ Holds(io.all_cat, EventIds(io.detections)))
    => /\ io.err = NoError
       /\ Len(io.res) = Len(io.detections)
       /\ \A i \in 1..Len(io.detections) : \A k \in ComparedKeys :
            io.res[i][k] = io.detections[i][k]

\* C18: whenever a written file is read back, detect_val, threshold and
\* threshold_input of every Detection read are exactly the values written.
C18_FloatsExact ==
    (ReadBack /\ io.err = NoError)
    => \A i \in 1..Len(io.res) : \A k \in FloatKeys :
            io.res[i][k] = io.detections[i][k]

\* The message of an error names line i of the file: it holds the text of
\* the line or its number.
NamesLine(message, i) ==
    Occurs(message, disk[i]) # {} \/ Occurs(message, IntText(i)) # {}

\* C19: when a pair has been appended to a line of a file that read without
\* error before, a pair with an empty key changes nothing in what the read
\* returns, and any other malformed pair makes the read raise an error
\* that names the line, returning no Detections.
C19_MalformedAborts ==
    (/\ io.op = "read"
     /\ io.appended # <<>>
     /\ read_family(write_family(io.detections), io.all_cat).err = NoError)
    => IF io.appended[1].pair \in EmptyKeyPairs
       THEN /\ io.err = NoError
            /\ io.res = read_family(write_family(io.detections),
                                    io.all_cat).res
       ELSE /\ io.err # NoError
            /\ io.res = <<>>
            /\ NamesLine(io.err.message, io.appended[1].line)

\* The identifier written for the event of a Detection.
WrittenId(det) == ValueText(det, "event")

\* C20: whenever a written file is read back with a companion catalog that
\* is not empty, then, if the catalog has an event of the identifier
\* written for every Detection, the read attaches to each Detection the
\* event of that identifier, and otherwise it raises the lookup's error.
C20_LookupByWrittenId ==
    (ReadBack /\ io.all_cat # <<>>)
    => IF \A i \in 1..Len(io.detections) :
            Holds(io.all_cat, {WrittenId(io.detections[i])})
       THEN /\ io.err = NoError
            /\ \A i \in 1..Len(io.detections) :
                io.res[i].event = Event(WrittenId(io.detections[i]))
       ELSE io.err.type = "IndexError"

\* ---- invariants of a Family, ownership and queries (Spec) ----
\* Every Detection of family f carries the template name of f.
OfOneTemplate(h, f) ==
    \A d \in Range(DetsOf(h, f)) :
        h.dets[d].template_name = h.fams[f].template.name

\* C21: when every Detection of a Family carries the Family's template
\* name, then after a successful + or += of that Family with any Family or
\* Detection every Detection of the result carries the result's template
\* name.
C21_CombineKeepsTemplate ==
    [][(/\ Combining
        /\ last'.err = "none"
        /\ OfOneTemplate(Heap, last'.self))
        => OfOneTemplate(Heap', last'.res.id)]_vars

\* The summary that reading family.catalog returns in heap h.
SummaryRead(h, f) == Family_catalog(h, f).h.fams[f].catalog

\* C22: at any time, for every Family whose Detections carry its template
\* name, the summary that a read returns has at every position i the
\* derived event of the i-th Detection.
C22_SummaryAligned ==
    \A f \in DOMAIN fams :
        OfOneTemplate(Heap, f) =>
            \A i \in 1..Len(DetsOf(Heap, f)) :
                /\ i <= Len(SummaryRead(Heap, f))
                /\ SummaryRead(Heap, f)[i] = dets[DetsOf(Heap, f)[i]].event

\* An in-place operation of a Family has just been carried out.
InPlace == Stepped /\ last'.op \in {"iadd", "sort", "uniq"}

\* C23: an in-place operation on one Family (+=, sort, _uniq) leaves the
\* detections of every other Family, and every list the caller holds, with
\* the length and the contents they had before.
C23_OwnsDetections ==
    [][InPlace =>
        /\ \A g \in DOMAIN fams \ {last'.self} :
               DetsOf(Heap', g) = DetsOf(Heap, g)
        /\ \A l \in heldLists : lists'[l] = lists[l]]_vars


\* The Detections of family f in heap h, in order, with their contents.
Contents(h, f) == [i \in 1..Len(DetsOf(h, f)) |-> h.dets[DetsOf(h, f)[i]]]

\* C24: after A == B or A != B, whatever the result, the detections of A
\* and of B are in the order and have the contents they had before.
C24_ComparePure ==
    [][Comparing =>
        /\ Contents(Heap', last'.self) = Contents(Heap, last'.self)
        /\ Contents(Heap', last'.other.id) = Contents(Heap, last'.other.id)]_vars

====
